---- MODULE Spec2Model ----
(***************************************************************************)
(* Model of everest-mod-cli's synchronization engine: scanning the mods    *)
(* directory, planning updates against the remote registry, and the       *)
(* concurrent download / verify / replace tasks of `update --install`.     *)
(*                                                                         *)
(* Strings are sequences of byte values (ASCII codes), so comparison,      *)
(* ordering, concatenation and case folding are the ones the program       *)
(* performs.  A file's content is a sequence of blocks; a block is one     *)
(* chunk of a response body (0 is a hole left by a write past the end).    *)
(***************************************************************************)
EXTENDS Naturals, Sequences, FiniteSets, TLC

(***************************************************************************)
(* Bounds of the model.                                                    *)
(***************************************************************************)
\* Largest number of chunks a response body delivers.
MaxChunks == 1

(***************************************************************************)
(* Strings used by the program and by the inputs.                          *)
(***************************************************************************)
\* ".zip"
DotZip == <<46, 122, 105, 112>>
\* "zip"
ZipExt == <<122, 105, 112>>
\* "unknown-mod_"
UnknownModPrefix == <<117, 110, 107, 110, 111, 119, 110, 45, 109, 111, 100, 95>>
\* "everest.yaml" (MOD_MANIFEST_FILE, as the tests of fileutil.rs set it)
MOD_MANIFEST_FILE == <<101, 118, 101, 114, 101, 115, 116, 46, 121, 97, 109, 108>>
\* "Frog", "frog": two mod names that differ only in letter case
NameFrog == <<70, 114, 111, 103>>
NameFrogLower == <<102, 114, 111, 103>>
\* "Toad": a mod name no registry document of the model has as a key
NameToad == <<84, 111, 97, 100>>
\* "a.zip", "b.zip": archive file names of the mods directory
FileA == <<97>> \o DotZip
FileB == <<98>> \o DotZip
\* version strings "1", "2"
Ver1 == <<49>>
Ver2 == <<50>>
\* url string "u1"
Url1 == <<117, 49>>

\* Option<T>
None == [some |-> FALSE]
Some(v) == [some |-> TRUE, val |-> v]

\* slice.contains(&x)
Contains(seq, x) == \E i \in 1..Len(seq) : seq[i] = x

\* str::to_lowercase on ASCII text
LowerByte(b) == IF b >= 65 /\ b <= 90 THEN b + 32 ELSE b
ToLower(s) == [i \in 1..Len(s) |-> LowerByte(s[i])]

\* Ord for String: byte-wise lexicographic order (a.cmp(b) = Less)
RECURSIVE StrLess(_, _)
StrLess(a, b) ==
    IF b = <<>> THEN FALSE
    ELSE IF a = <<>> THEN TRUE
    ELSE IF a[1] # b[1] THEN a[1] < b[1]
    ELSE StrLess(Tail(a), Tail(b))

(***************************************************************************)
(* Content fingerprint.                                                    *)
(***************************************************************************)
\* Xxh64::new(0): the state of a fresh hasher
HasherNew == 0
\* Xxh64::update: absorbs one block; distinct block sequences get distinct states
\* (the values stay far below 2^64, so the 64-bit wrap-around never applies)
HasherUpdate(h, block) == h * 7 + block + 9
\* Xxh64::digest
HasherDigest(h) == h

\* one lowercase hexadecimal digit
HexDigit(d) == IF d < 10 THEN 48 + d ELSE 87 + d
\* format!("{:016x}", hash)
RECURSIVE HexWidth(_, _)
HexWidth(n, width) ==
    IF width = 0 THEN <<>>
    ELSE Append(HexWidth(n \div 16, width - 1), HexDigit(n % 16))
Hex016(n) == HexWidth(n, 16)

\* the hashing loop of sync_hash_file over a file's blocks
RECURSIVE HashBlocks(_, _)
HashBlocks(h, content) ==
    IF content = <<>> THEN h
    ELSE HashBlocks(HasherUpdate(h, Head(content)), Tail(content))
sync_hash_file(content) == Hex016(HasherDigest(HashBlocks(HasherNew, content)))

(***************************************************************************)
(* Paths and the filesystem.  A path is a directory and a file name; the   *)
(* directory "." marks a relative path, resolved against the process's     *)
(* working directory.  fs maps each existing path to its inode, inodes     *)
(* maps each inode to the file's blocks.                                   *)
(***************************************************************************)
ModsDir == "mods"
WorkDir == "work"
Path(dir, name) == [dir |-> dir, name |-> name]
\* Path::join(dir, name)
Join(dir, name) == Path(dir, name)
\* Path::file_name, as a path of its own
FileName(p) == Path(".", p.name)
\* resolution of a possibly relative path by the operating system
Resolve(p, workdir) == IF p.dir = "." THEN Path(workdir, p.name) ELSE p

\* Path::extension: the part after the last '.', none for "name" and ".name"
LastDot(name) ==
    LET dots == {i \in 1..Len(name) : name[i] = 46}
    IN  IF dots = {} THEN 0 ELSE CHOOSE i \in dots : \A j \in dots : j <= i
Extension(name) ==
    IF LastDot(name) <= 1 THEN None
    ELSE Some(SubSeq(name, LastDot(name) + 1, Len(name)))

\* removal of a directory entry
Unlink(f, p) == [q \in (DOMAIN f) \ {p} |-> f[q]]
\* a write of one block at offset off of a file (holes are filled with 0)
WriteAt(content, off, block) ==
    [i \in 1..(IF off + 1 > Len(content) THEN off + 1 ELSE Len(content)) |->
        IF i = off + 1 THEN block
        ELSE IF i <= Len(content) THEN content[i]
        ELSE 0]

(***************************************************************************)
(* Archives.  The zip directory sits at the end of a file, so the last     *)
(* block of a file decides what the file holds.  A manifest document is a  *)
(* sequence of bytes; a byte that stands for a record denotes one list     *)
(* item of the YAML document.                                              *)
(***************************************************************************)
\* ModManifest records the documents can hold
ManifestRecord(b) ==
    IF b = 1 THEN Some([name |-> NameFrog, version |-> Ver1])
    ELSE IF b = 2 THEN Some([name |-> NameFrog, version |-> Ver2])
    ELSE IF b = 3 THEN Some([name |-> NameFrogLower, version |-> Ver1])
    ELSE IF b = 8 THEN Some([name |-> NameToad, version |-> Ver1])
    ELSE None

\* ZipArchive::new: the entries (name, data) of the container, or an error
ZipArchiveNew(content) ==
    LET last == IF content = <<>> THEN 0 ELSE content[Len(content)]
    IN  IF last \in {1, 2, 3}
        THEN [ok |-> TRUE,
              entries |-> <<[name |-> MOD_MANIFEST_FILE, data |-> <<last>>]>>]
        ELSE IF last = 7
        THEN [ok |-> TRUE,
              entries |-> <<[name |-> MOD_MANIFEST_FILE, data |-> <<8, 2>>]>>]
        ELSE IF last = 4
        THEN [ok |-> TRUE, entries |-> <<[name |-> <<120>>, data |-> <<>>]>>]
        ELSE [ok |-> FALSE, entries |-> <<>>]

\* ZipArchive::by_name: the entry of exactly that name
ByName(entries, name) ==
    LET hits == {i \in 1..Len(entries) : entries[i].name = name}
    IN  IF hits = {} THEN None
        ELSE Some(entries[CHOOSE i \in hits : \A j \in hits : i <= j])

\* a removal of the first three bytes whatever they are, which the program
\* does not perform
StripBomUnchecked(buffer) ==
    IF Len(buffer) >= 3 THEN SubSeq(buffer, 4, Len(buffer)) ELSE buffer
\* the removal of a leading UTF-8 byte-order-mark
StripBom(buffer) ==
    IF Len(buffer) >= 3 /\ buffer[1] = 239 /\ buffer[2] = 187 /\ buffer[3] = 191
    THEN SubSeq(buffer, 4, Len(buffer))
    ELSE buffer

\* a reading that takes a missing manifest entry for an error, which the
\* program does not
read_manifest_file_from_zip_or_err(content) ==
    LET zip == ZipArchiveNew(content)
    IN  IF ~zip.ok THEN [ok |-> FALSE, val |-> None]
        ELSE LET file == ByName(zip.entries, MOD_MANIFEST_FILE)
             IN  IF file.some
                 THEN [ok |-> TRUE, val |-> Some(StripBom(file.val.data))]
                 ELSE [ok |-> FALSE, val |-> None]
\* read_manifest_file_from_zip once ZipArchive::new has returned zip:
\* Ok(Some(bytes)), Ok(None) or Err
read_manifest_from_archive(zip) ==
    IF ~zip.ok THEN [ok |-> FALSE, val |-> None]
    ELSE LET file == ByName(zip.entries, MOD_MANIFEST_FILE)
         IN  IF file.some
             THEN [ok |-> TRUE, val |-> Some(StripBom(file.val.data))]
             ELSE [ok |-> TRUE, val |-> None]
\* read_manifest_file_from_zip of the file with that content
read_manifest_file_from_zip(content) == read_manifest_from_archive(ZipArchiveNew(content))

\* a parser that keeps the last record of the list (pop_back), which the
\* program does not
parse_mod_manifest_last_record(yaml_content) ==
    IF \E i \in 1..Len(yaml_content) : ~ManifestRecord(yaml_content[i]).some
    THEN [ok |-> FALSE, val |-> None]
    ELSE IF yaml_content = <<>>
    THEN [ok |-> FALSE, val |-> None]
    ELSE [ok |-> TRUE, val |-> ManifestRecord(yaml_content[Len(yaml_content)])]
\* ModManifest::parse_mod_manifest_from_yaml: the first record of the list
parse_mod_manifest_from_yaml(yaml_content) ==
    IF \E i \in 1..Len(yaml_content) : ~ManifestRecord(yaml_content[i]).some
    THEN [ok |-> FALSE, val |-> None]
    ELSE IF yaml_content = <<>>
    THEN [ok |-> FALSE, val |-> None]
    ELSE [ok |-> TRUE, val |-> ManifestRecord(yaml_content[1])]

\* LocalModInfo::new: the archive path is cut down to its file name
LocalModInfoNew(archive_path, manifest, checksum) ==
    [archive_path |-> FileName(archive_path),
     mod_name |-> manifest.name,
     version |-> manifest.version,
     checksum |-> checksum]

(***************************************************************************)
(* Scan of the mods directory.                                             *)
(***************************************************************************)
\* find_installed_mod_archives: the *.zip files of the directory (the
\* operating system decides the order they are enumerated in)
find_installed_mod_archives(f, mods_directory) ==
    {p \in DOMAIN f : p.dir = mods_directory /\ Extension(p.name) = Some(ZipExt)}

\* the orders a directory enumeration can return a set of paths in
Enumerations(paths) ==
    {order \in [1..Cardinality(paths) -> paths] :
        \A i, j \in 1..Cardinality(paths) : i # j => order[i] # order[j]}

\* Vec::sort_by(|a, b| a.mod_name.cmp(&b.mod_name)): a stable sort
RECURSIVE InsertByName(_, _)
InsertByName(sorted, m) ==
    IF sorted = <<>> THEN <<m>>
    ELSE IF StrLess(m.mod_name, Head(sorted).mod_name) THEN <<m>> \o sorted
    ELSE <<Head(sorted)>> \o InsertByName(Tail(sorted), m)
RECURSIVE SortByName(_)
SortByName(mods) ==
    IF mods = <<>> THEN <<>>
    ELSE InsertByName(SortByName(SubSeq(mods, 1, Len(mods) - 1)), mods[Len(mods)])

\* the loop of list_installed_mods over the archives, in enumeration order:
\* the first error ends the scan, an archive without manifest is skipped
RECURSIVE ScanArchives(_, _, _, _)
ScanArchives(archive_paths, f, ino, installed_mods) ==
    IF archive_paths = <<>> THEN [ok |-> TRUE, val |-> installed_mods]
    ELSE
        LET archive_path == Head(archive_paths)
            manifest_content == read_manifest_file_from_zip(ino[f[archive_path]])
        IN  IF ~manifest_content.ok THEN [ok |-> FALSE, val |-> <<>>]
            ELSE IF ~manifest_content.val.some
            THEN ScanArchives(Tail(archive_paths), f, ino, installed_mods)
            ELSE
                LET checksum == sync_hash_file(ino[f[archive_path]])
                    manifest == parse_mod_manifest_from_yaml(manifest_content.val.val)
                IN  IF ~manifest.ok THEN [ok |-> FALSE, val |-> <<>>]
                    ELSE ScanArchives(Tail(archive_paths), f, ino,
                            Append(installed_mods,
                                LocalModInfoNew(archive_path, manifest.val.val, checksum)))

\* list_installed_mods: Err for a missing directory or a failing archive,
\* else the inventory sorted by mod name
list_installed_mods(f, ino, dir_exists, archive_paths) ==
    IF ~dir_exists THEN [ok |-> FALSE, val |-> <<>>]
    ELSE LET scanned == ScanArchives(archive_paths, f, ino, <<>>)
         IN  IF ~scanned.ok THEN scanned
             ELSE [ok |-> TRUE, val |-> SortByName(scanned.val)]

(***************************************************************************)
(* Registry and update plan.                                               *)
(***************************************************************************)
\* ModRegistry::from: every entry of the document gets its key as its name
ModRegistryFrom(document) ==
    [key \in DOMAIN document |->
        [name |-> key,
         version |-> document[key].version,
         download_url |-> document[key].download_url,
         checksums |-> document[key].checksums]]

\* a lookup that ignores letter case, which the program does not perform
get_mod_info_ignoring_case(registry, name) ==
    LET hits == {key \in DOMAIN registry : ToLower(key) = ToLower(name)}
    IN  IF hits = {} THEN None ELSE Some(registry[CHOOSE key \in hits : TRUE])
\* ModRegistry::get_mod_info: HashMap::get, an exact match of the key
get_mod_info(registry, name) ==
    IF name \in DOMAIN registry THEN Some(registry[name]) ELSE None

\* RemoteModInfo::has_matching_hash: membership after lowercasing both sides
has_matching_hash(remote_mod, checksum) ==
    \E i \in 1..Len(remote_mod.checksums) :
        ToLower(remote_mod.checksums[i]) = ToLower(checksum)

\* a task with the two versions in each other's place, which the program
\* does not build
AvailableUpdateInfoSwapped(local_mod, available_mod) ==
    [name |-> local_mod.mod_name,
     current_version |-> available_mod.version,
     available_version |-> local_mod.version,
     url |-> available_mod.download_url,
     hash |-> available_mod.checksums,
     existing_path |-> local_mod.archive_path]
\* AvailableUpdateInfo built by check_updates
AvailableUpdateInfo(local_mod, available_mod) ==
    [name |-> local_mod.mod_name,
     current_version |-> local_mod.version,
     available_version |-> available_mod.version,
     url |-> available_mod.download_url,
     hash |-> available_mod.checksums,
     existing_path |-> local_mod.archive_path]

\* a plan that compares version strings, which the program does not do
RECURSIVE check_updates_by_version(_, _)
check_updates_by_version(installed_mods, registry) ==
    IF installed_mods = <<>> THEN <<>>
    ELSE
        LET local_mod == Head(installed_mods)
            remote_mod == get_mod_info(registry, local_mod.mod_name)
            rest == check_updates_by_version(Tail(installed_mods), registry)
        IN  IF ~remote_mod.some THEN rest
            ELSE IF remote_mod.val.version = local_mod.version THEN rest
            ELSE <<AvailableUpdateInfo(local_mod, remote_mod.val)>> \o rest
\* the loop of check_updates over the installed mods
RECURSIVE check_updates(_, _)
check_updates(installed_mods, registry) ==
    IF installed_mods = <<>> THEN <<>>
    ELSE
        LET local_mod == Head(installed_mods)
            remote_mod == get_mod_info(registry, local_mod.mod_name)
            rest == check_updates(Tail(installed_mods), registry)
        IN  IF ~remote_mod.some THEN rest
            ELSE IF has_matching_hash(remote_mod.val, local_mod.checksum) THEN rest
            ELSE <<AvailableUpdateInfo(local_mod, remote_mod.val)>> \o rest

(***************************************************************************)
(* Destination file name of a download.                                    *)
(***************************************************************************)
\* trim_matches('"')
RECURSIVE TrimQuotes(_)
TrimQuotes(s) ==
    IF s = <<>> THEN s
    ELSE IF Head(s) = 34 THEN TrimQuotes(Tail(s))
    ELSE IF s[Len(s)] = 34 THEN TrimQuotes(SubSeq(s, 1, Len(s) - 1))
    ELSE s

\* extract_filename_from_url: the last path segment when it is not empty
extract_filename_from_url(response) ==
    IF response.url_last_segment # <<>> THEN Some(response.url_last_segment) ELSE None

\* HeaderValue::to_str().ok(): the text of a header value made of visible
\* ASCII characters (and tabs) only, None for any other value
HeaderToStr(value) ==
    IF \A i \in 1..Len(value) : value[i] = 9 \/ (value[i] >= 32 /\ value[i] <= 126)
    THEN Some(value) ELSE None

\* extract_filename_from_etag: the unquoted ETag value with ".zip"
extract_filename_from_etag(response) ==
    IF response.etag.some /\ HeaderToStr(response.etag.val).some
    THEN Some(TrimQuotes(HeaderToStr(response.etag.val).val) \o DotZip)
    ELSE None

\* a choice that prefers the ETag to the url, which the program does not make
determine_filename_etag_first(response, uuid) ==
    IF extract_filename_from_etag(response).some
    THEN extract_filename_from_etag(response).val
    ELSE IF extract_filename_from_url(response).some
    THEN extract_filename_from_url(response).val
    ELSE UnknownModPrefix \o uuid \o DotZip
\* determine_filename: url, else etag, else "unknown-mod_<uuid>.zip"
determine_filename(response, uuid) ==
    IF extract_filename_from_url(response).some
    THEN extract_filename_from_url(response).val
    ELSE IF extract_filename_from_etag(response).some
    THEN extract_filename_from_etag(response).val
    ELSE UnknownModPrefix \o uuid \o DotZip

\* download_path of download_mod
DownloadPath(download_dir, response, uuid) ==
    Join(download_dir, determine_filename(response, uuid) \o DotZip)

(***************************************************************************)
(* Inputs of a run.                                                        *)
(***************************************************************************)
\* blocks of the archives found in the mods directory before the run
LocalContents == {<<1>>, <<3>>, <<4>>, <<5>>, <<7>>}
\* chunks a response body can deliver
ChunkValues == {1, 2}

\* str::to_uppercase on ASCII text, for the fingerprints a registry spells
\* in upper case
ToUpper(s) == [i \in 1..Len(s) |-> IF s[i] >= 97 /\ s[i] <= 122 THEN s[i] - 32 ELSE s[i]]
\* fingerprints the registry lists: of the archive <<2>> as computed; of the
\* archives <<2>> and <<1>> in upper case; or of the archives <<1>> and <<3>>
HashOfNew == sync_hash_file(<<2>>)
HashOfNewUpper == ToUpper(HashOfNew)
HashOfOldUpper == ToUpper(sync_hash_file(<<1>>))
ChecksumLists ==
    {<<HashOfNew>>, <<HashOfNewUpper, HashOfOldUpper>>,
     <<sync_hash_file(<<1>>), sync_hash_file(<<3>>)>>}
\* the archives of LocalContents declare version "1": an entry's version can
\* differ while its checksums match, and be equal while they do not
RemoteEntries ==
    {[version |-> IF c[1] = HashOfNewUpper THEN Ver1 ELSE Ver2,
      download_url |-> Url1, checksums |-> c] : c \in ChecksumLists}
\* registry documents: a mapping from mod name to entry
Documents ==
    UNION {[keys -> RemoteEntries] : keys \in SUBSET {NameFrog, NameFrogLower}}

\* responses of the download server: an error (transport or status), or a
\* success with the final url's last path segment and an optional ETag
Responses ==
    {[ok |-> FALSE, url_last_segment |-> <<>>, etag |-> None]} \cup
    {[ok |-> TRUE, url_last_segment |-> seg, etag |-> e] :
        seg \in {<<>>, <<97>>}, e \in {None, Some(<<34, 101, 34>>)}}

\* the files a run starts with
InitialFiles(a, b) ==
    (IF a.some THEN {[path |-> Path(ModsDir, FileA), inode |-> 1, content |-> a.val]}
     ELSE {}) \cup
    (IF b.some THEN {[path |-> Path(ModsDir, FileB), inode |-> 2, content |-> b.val]}
     ELSE {})

(***************************************************************************)
(* State.                                                                  *)
(***************************************************************************)
VARIABLES
    cwd,               \* working directory of the process
    mods_exists,       \* whether the mods directory exists
    install,           \* UpdateArgs.install
    document,          \* the registry document the server holds
    fs,                \* path -> inode, for every existing file
    inodes,            \* inode -> blocks
    disk0,             \* path -> blocks, as the run found the files
    main_pc,           \* position of main
    main_out,          \* the closing message of main
    mod_registry,      \* ModRegistry.entries
    installed_mods,    \* the inventory of the scan
    available_updates, \* the plan
    tasks,             \* the spawned download tasks
    joined,            \* number of handles main has awaited
    call               \* a library function applied on its own: name, argument, result

vars == <<cwd, mods_exists, install, document, fs, inodes, disk0, main_pc, main_out,
          mod_registry, installed_mods, available_updates, tasks, joined, call>>

\* no library function is applied on its own during a run of main
NoCall == [fn |-> "none"]
env == <<cwd, mods_exists, install, document, disk0, call>>

Tasks == DOMAIN tasks
Terminal == {"Committed", "RolledBack", "Failed"}
\* a task that is not spawned yet
NewTask == [pc |-> "Unspawned", status |-> "none", download_path |-> None, file |-> 0,
            offset |-> 0, hasher |-> HasherNew, report |-> None]
\* Uuid::new_v4(), one per task
Uuid(t) == <<48 + t>>
\* the inode of a file a task creates
TaskInode(t) == 10 + t

Range(f) == {f[x] : x \in DOMAIN f}
\* inodes that a path or an open file handle refers to
Live(f, ino, tk) ==
    [i \in (Range(f) \cup {tk[t].file : t \in DOMAIN tk}) \cap DOMAIN ino |-> ino[i]]

Init ==
    /\ \E a, b \in {None} \cup {Some(c) : c \in LocalContents} :
        \E dir \in BOOLEAN, wd \in {ModsDir, WorkDir} :
            /\ dir \/ (~a.some /\ ~b.some /\ wd = WorkDir)
            /\ mods_exists = dir
            /\ cwd = wd
            /\ LET files == InitialFiles(a, b)
               IN  /\ fs = [p \in {x.path : x \in files} |->
                               (CHOOSE x \in files : x.path = p).inode]
                   /\ inodes = [i \in {x.inode : x \in files} |->
                               (CHOOSE x \in files : x.inode = i).content]
                   /\ disk0 = [p \in {x.path : x \in files} |->
                               (CHOOSE x \in files : x.path = p).content]
    /\ install \in BOOLEAN
    /\ document \in Documents
    /\ main_pc = "fetch"
    /\ main_out = "none"
    /\ mod_registry = <<>>
    /\ installed_mods = <<>>
    /\ available_updates = <<>>
    /\ tasks = <<>>
    /\ joined = 0
    /\ call = NoCall

(***************************************************************************)
(* main, Commands::Update.                                                 *)
(***************************************************************************)
\* fetch_mod_registry and ModRegistry::from; an error ends the run
FetchRegistry ==
    /\ main_pc = "fetch"
    /\ \/ /\ main_pc' = "exit"
          /\ main_out' = "error_fetch"
          /\ UNCHANGED mod_registry
       \/ /\ mod_registry' = ModRegistryFrom(document)
          /\ main_pc' = "check"
          /\ UNCHANGED main_out
    /\ UNCHANGED <<env, fs, inodes, installed_mods, available_updates, tasks, joined>>

\* check_updates: the scan, then the plan; main prints the plan and goes on
\* to the installation only with --install
CheckUpdates ==
    /\ main_pc = "check"
    /\ \E archive_paths \in Enumerations(find_installed_mod_archives(fs, ModsDir)) :
        LET listed == list_installed_mods(fs, inodes, mods_exists, archive_paths)
            updates == check_updates(listed.val, mod_registry)
        IN  IF ~listed.ok
            THEN /\ main_pc' = "exit"
                 /\ main_out' = "error_scan"
                 /\ UNCHANGED <<installed_mods, available_updates, tasks>>
            ELSE /\ installed_mods' = listed.val
                 /\ available_updates' = updates
                 /\ IF updates = <<>>
                    THEN /\ main_pc' = "exit"
                         /\ main_out' = "up_to_date"
                         /\ UNCHANGED tasks
                    ELSE IF ~install
                    THEN /\ main_pc' = "exit"
                         /\ main_out' = "run_with_install"
                         /\ UNCHANGED tasks
                    ELSE /\ main_pc' = "spawn"
                         /\ tasks' = [t \in 1..Len(updates) |-> NewTask]
                         /\ UNCHANGED main_out
    /\ UNCHANGED <<env, fs, inodes, mod_registry, joined>>

\* one round of the loop that spawns a task per update
Spawn ==
    /\ main_pc = "spawn"
    /\ LET t == CHOOSE i \in Tasks :
                    /\ tasks[i].pc = "Unspawned"
                    /\ \A j \in Tasks : tasks[j].pc = "Unspawned" => i <= j
       IN  /\ tasks' = [tasks EXCEPT ![t].pc = "Pending"]
           /\ main_pc' = IF t = Len(tasks) THEN "join" ELSE "spawn"
    /\ UNCHANGED <<env, fs, inodes, main_out, mod_registry, installed_mods,
                   available_updates, joined>>

\* a wait that returns for a committed task only, which the program's is not
HandleReadyOnlyCommitted(t) == tasks[t].pc = "Committed"
\* handle.await returns once the task has ended
HandleReadyOrSomeFailed(t) ==
    tasks[t].pc \in Terminal \/ \E u \in Tasks : tasks[u].pc = "Failed"
HandleReady(t) == tasks[t].pc \in Terminal

\* one round of the loop that awaits the handles; after the last one main
\* prints "All updates installed successfully!"
AwaitHandle ==
    /\ main_pc = "join"
    /\ HandleReady(joined + 1)
    /\ joined' = joined + 1
    /\ IF joined + 1 = Len(tasks)
       THEN main_pc' = "exit" /\ main_out' = "all_installed"
       ELSE UNCHANGED <<main_pc, main_out>>
    /\ UNCHANGED <<env, fs, inodes, mod_registry, installed_mods, available_updates,
                   tasks>>

(***************************************************************************)
(* A spawned task: download_mod, then the removal of the outdated file.    *)
(***************************************************************************)
\* a task that prints the success message whatever the result, which the
\* program does not
TaskReportAlwaysSuccess(update, result) ==
    Some([kind |-> "success", name |-> update.name,
          detail |-> update.available_version])
\* the message the task prints for the result of download_mod: "[Successs]
\* Updated <name> to version <version>" or "[Error] Failed to update <name>:
\* <error>" (result is "Ok" or the kind of the error)
TaskReport(update, result) ==
    IF result = "Ok"
    THEN Some([kind |-> "success", name |-> update.name,
               detail |-> update.available_version])
    ELSE Some([kind |-> "error", name |-> update.name, detail |-> result])

\* a request that goes on whatever the status, which the program does not
StatusIgnored(response) == FALSE
\* error_for_status: a response without success status is an error
IsErrorResponse(response) == ~response.ok

\* expected_hash.contains(&hash_str)
ChecksumAlwaysVerified(expected_hash, hash_str) == TRUE
ChecksumVerified(expected_hash, hash_str) == Contains(expected_hash, hash_str)

\* client.get(url).send() and error_for_status, determine_filename and
\* File::create of the destination
SendRequest(t) ==
    /\ tasks[t].pc = "Pending"
    /\ \E response \in Responses :
        LET download_path == DownloadPath(ModsDir, response, Uuid(t))
            status == IF response.ok THEN "ok" ELSE "error"
        IN  IF IsErrorResponse(response)
            THEN /\ tasks' = [tasks EXCEPT ![t].pc = "Failed", ![t].status = status,
                                  ![t].report = TaskReport(available_updates[t], "Request")]
                 /\ UNCHANGED <<fs, inodes>>
            ELSE IF ~mods_exists
            THEN /\ tasks' = [tasks EXCEPT ![t].pc = "Failed", ![t].status = status,
                                  ![t].report = TaskReport(available_updates[t], "Io")]
                 /\ UNCHANGED <<fs, inodes>>
            ELSE IF download_path \in DOMAIN fs
            THEN /\ tasks' = [tasks EXCEPT ![t].pc = "Downloading",
                                           ![t].status = status,
                                           ![t].download_path = Some(download_path),
                                           ![t].file = fs[download_path]]
                 /\ inodes' = [inodes EXCEPT ![fs[download_path]] = <<>>]
                 /\ UNCHANGED fs
            ELSE /\ tasks' = [tasks EXCEPT ![t].pc = "Downloading",
                                           ![t].status = status,
                                           ![t].download_path = Some(download_path),
                                           ![t].file = TaskInode(t)]
                 /\ fs' = (download_path :> TaskInode(t)) @@ fs
                 /\ inodes' = (TaskInode(t) :> <<>>) @@ inodes
    /\ UNCHANGED <<env, main_pc, main_out, mod_registry, installed_mods,
                   available_updates, joined>>

\* stream.next(): a chunk (written to the file and fed to the hasher), an
\* error, or the end of the body
StreamNext(t) ==
    /\ tasks[t].pc = "Downloading"
    /\ \/ \E chunk \in ChunkValues :
            /\ tasks[t].offset < MaxChunks
            /\ tasks' = [tasks EXCEPT ![t].offset = @ + 1,
                                      ![t].hasher = HasherUpdate(@, chunk)]
            /\ inodes' = [inodes EXCEPT ![tasks[t].file] =
                              WriteAt(@, tasks[t].offset, chunk)]
       \/ /\ tasks' = [tasks EXCEPT ![t].pc = "Failed", ![t].file = 0,
                           ![t].report = TaskReport(available_updates[t], "Request")]
          /\ inodes' = Live(fs, inodes, tasks')
       \/ /\ tasks' = [tasks EXCEPT ![t].pc = "Verifying"]
          /\ UNCHANGED inodes
    /\ UNCHANGED <<env, fs, main_pc, main_out, mod_registry, installed_mods,
                   available_updates, joined>>

\* the checksum verification of download_mod: Ok, or the removal of the
\* downloaded file and an error
Verify(t) ==
    /\ tasks[t].pc = "Verifying"
    /\ LET hash_str == Hex016(HasherDigest(tasks[t].hasher))
           download_path == tasks[t].download_path.val
       IN  IF ChecksumVerified(available_updates[t].hash, hash_str)
           THEN /\ tasks' = [tasks EXCEPT ![t].pc = "Verified", ![t].file = 0]
                /\ UNCHANGED fs
           ELSE IF download_path \in DOMAIN fs
           THEN /\ tasks' = [tasks EXCEPT ![t].pc = "RolledBack", ![t].file = 0,
                          ![t].report = TaskReport(available_updates[t], "InvalidChecksum")]
                /\ fs' = Unlink(fs, download_path)
           ELSE /\ tasks' = [tasks EXCEPT ![t].pc = "Failed", ![t].file = 0,
                                  ![t].report = TaskReport(available_updates[t], "Io")]
                /\ UNCHANGED fs
    /\ inodes' = Live(fs', inodes, tasks')
    /\ UNCHANGED <<env, main_pc, main_out, mod_registry, installed_mods,
                   available_updates, joined>>

\* the Ok arm of the spawned task: the success message, then the removal of
\* existing_path when it exists
Commit(t) ==
    /\ tasks[t].pc = "Verified"
    /\ LET existing_path == Resolve(available_updates[t].existing_path, cwd)
       IN  fs' = IF existing_path \in DOMAIN fs THEN Unlink(fs, existing_path) ELSE fs
    /\ tasks' = [tasks EXCEPT ![t].pc = "Committed",
                              ![t].report = TaskReport(available_updates[t], "Ok")]
    /\ inodes' = Live(fs', inodes, tasks')
    /\ UNCHANGED <<env, main_pc, main_out, mod_registry, installed_mods,
                   available_updates, joined>>

TaskStep(t) == SendRequest(t) \/ StreamNext(t) \/ Verify(t) \/ Commit(t)

Next ==
    \/ FetchRegistry
    \/ CheckUpdates
    \/ Spawn
    \/ AwaitHandle
    \/ \E t \in Tasks : SendRequest(t)
    \/ \E t \in Tasks : StreamNext(t)
    \/ \E t \in Tasks : Verify(t)
    \/ \E t \in Tasks : Commit(t)

Spec == Init /\ [][Next]_vars

(***************************************************************************)
(* Properties.                                                             *)
(***************************************************************************)
\* the content of the file at a path, if there is one
FileAt(f, ino, p) == IF p \in DOMAIN f THEN Some(ino[f[p]]) ELSE None
\* the archive of the mods directory that task t is to replace
SupersededArchive(t) == Resolve(available_updates[t].existing_path, ModsDir)
\* the fingerprint task t has computed so far
ComputedFingerprint(t) == Hex016(HasherDigest(tasks[t].hasher))
\* the state of a task in the terms of the design: the download is verified
\* but not committed while the outdated file is still to be removed
TaskState(task) ==
    IF task.pc = "Unspawned" THEN "Pending"
    ELSE IF task.pc = "Verified" THEN "Verifying"
    ELSE task.pc
Executing(t) == tasks[t].pc \in {"Downloading", "Verifying", "Verified"}

\* C1: a task's superseded archive is deleted, truncated or overwritten only
\* once that task's download is complete and its fingerprint was found among
\* the expected ones; no earlier step changes the superseded file.
C1_HashBeforeCommit ==
    [][\A t \in Tasks :
        FileAt(fs, inodes, SupersededArchive(t)) #
            FileAt(fs', inodes', SupersededArchive(t))
        => tasks[t].pc = "Verified"]_vars

\* C2: when a task ends with the integrity error, its superseded file exists
\* with the content it had before the run and its destination file does not
\* exist.
C2_Rollback ==
    [][\A t \in Tasks :
        (tasks[t].pc # "RolledBack" /\ tasks'[t].pc = "RolledBack")
        => /\ SupersededArchive(t) \in DOMAIN disk0
           /\ FileAt(fs', inodes', SupersededArchive(t)) =
                  Some(disk0[SupersededArchive(t)])
           /\ tasks'[t].download_path.val \notin DOMAIN fs']_vars

\* C3: when a task succeeds, its superseded file no longer exists in the
\* mods directory, the new file exists at the destination and the new
\* file's fingerprint is one of the expected fingerprints.
C3_Commit ==
    [][\A t \in Tasks :
        (tasks[t].pc # "Committed" /\ tasks'[t].pc = "Committed")
        => /\ SupersededArchive(t) \notin DOMAIN fs'
           /\ tasks'[t].download_path.val \in DOMAIN fs'
           /\ Contains(available_updates[t].hash,
                       sync_hash_file(inodes'[fs'[tasks'[t].download_path.val]]))]_vars

\* C4: the step in which a task fails cancels no other task and changes
\* neither the destination file nor the superseded file of any other task.
C4_FailureIsolation ==
    [][\A t \in Tasks :
        (tasks[t].pc \notin Terminal /\ tasks'[t].pc \in {"RolledBack", "Failed"})
        => \A u \in Tasks \ {t} :
            /\ tasks'[u] = tasks[u]
            /\ FileAt(fs', inodes', SupersededArchive(u)) =
                   FileAt(fs, inodes, SupersededArchive(u))
            /\ tasks[u].download_path.some =>
                   FileAt(fs', inodes', tasks[u].download_path.val) =
                       FileAt(fs, inodes, tasks[u].download_path.val)]_vars

\* C5: the destination paths and the superseded paths of two different
\* tasks that execute at the same time are pairwise different.
C5_CrossTaskDisjoint ==
    \A t, u \in Tasks :
        (t # u /\ Executing(t) /\ Executing(u))
        => /\ tasks[t].download_path.val # tasks[u].download_path.val
           /\ tasks[t].download_path.val # SupersededArchive(u)
           /\ SupersededArchive(t) # SupersededArchive(u)

\* C6: the destination path a task creates and writes is never the path of
\* the archive that task supersedes.
C6_DestinationNotSuperseded ==
    \A t \in Tasks :
        tasks[t].download_path.some
        => tasks[t].download_path.val # SupersededArchive(t)

\* C7: main reports the completion of the installation only once every
\* spawned task has ended, and after spawning tasks it ends in no other way:
\* a failed task neither stops the waiting nor cancels another task.
C7_JoinAll ==
    (main_pc = "exit" /\ Tasks # {})
    => /\ main_out = "all_installed"
       /\ joined = Len(tasks)
       /\ \A t \in Tasks : tasks[t].pc \in Terminal
C7_Witness ==
    /\ main_out = "all_installed"
    /\ \E t, u \in Tasks : tasks[t].pc = "Failed" /\ tasks[u].pc = "Committed"

\* C8: a task moves only along Pending -> Downloading -> Verifying ->
\* Committed | RolledBack | Failed (Failed also from Pending and Downloading);
\* nothing is received once Downloading is left; Committed is entered only
\* from Verifying with a computed fingerprint among the expected ones,
\* RolledBack only from Verifying with one that is not; a task that has
\* ended changes no more and takes no further step.
TaskTransitions ==
    {<<"Pending", "Downloading">>, <<"Pending", "Failed">>,
     <<"Downloading", "Verifying">>, <<"Downloading", "Failed">>,
     <<"Verifying", "Committed">>, <<"Verifying", "RolledBack">>,
     <<"Verifying", "Failed">>}
C8_StateMachine ==
    [][\A t \in Tasks :
        LET from == TaskState(tasks[t])
            to == TaskState(tasks'[t])
        IN  /\ from # to => <<from, to>> \in TaskTransitions
            /\ from # "Downloading" =>
                   /\ tasks'[t].hasher = tasks[t].hasher
                   /\ tasks'[t].offset = tasks[t].offset
            /\ (from # to /\ to = "Committed") =>
                   Contains(available_updates[t].hash, ComputedFingerprint(t))
            /\ (from # to /\ to = "RolledBack") =>
                   ~Contains(available_updates[t].hash, ComputedFingerprint(t))
            /\ from \in Terminal => (tasks'[t] = tasks[t] /\ ~TaskStep(t))]_vars
C8_Witness ==
    \E t, u \in Tasks :
        /\ tasks[t].pc = "Committed"
        /\ tasks[u].pc = "RolledBack"
        /\ tasks[u].offset > 0

\* C9: every task of the plan carries a mod name that is a key of the
\* registry document, compared exactly; a local mod without such a key gets
\* no task, and the only error of the planning step is a failed scan.
C9_PlanOnlyRegistryNames ==
    /\ \A i \in 1..Len(available_updates) :
           available_updates[i].name \in DOMAIN document
    /\ main_out = "error_scan" =>
           \A order \in Enumerations(find_installed_mod_archives(fs, ModsDir)) :
               ~list_installed_mods(fs, inodes, mods_exists, order).ok
C9_Witness ==
    /\ main_pc \in {"spawn", "exit"}
    /\ main_out \notin {"error_fetch", "error_scan"}
    /\ NameFrog \in DOMAIN document
    /\ NameFrogLower \notin DOMAIN document
    /\ \E i \in 1..Len(installed_mods) : installed_mods[i].mod_name = NameFrogLower
    /\ \E i \in 1..Len(available_updates) : available_updates[i].name = NameFrog

\* C10: a local mod whose fingerprint is one of the checksums of its
\* registry entry gets no task, whatever the two version strings are.
C10_NoTaskWhenFingerprintListed ==
    \A i \in 1..Len(installed_mods) :
        LET local_mod == installed_mods[i]
        IN  (/\ local_mod.mod_name \in DOMAIN document
             /\ Contains(document[local_mod.mod_name].checksums, local_mod.checksum))
            => \A j \in 1..Len(available_updates) :
                   available_updates[j].existing_path # local_mod.archive_path
C10_Witness ==
    /\ main_pc \in {"spawn", "exit"}
    /\ \E i \in 1..Len(installed_mods) :
        LET local_mod == installed_mods[i]
        IN  /\ local_mod.mod_name \in DOMAIN document
            /\ Contains(document[local_mod.mod_name].checksums, local_mod.checksum)
            /\ document[local_mod.mod_name].version # local_mod.version
    /\ available_updates # <<>>

\* the plans a further scan and plan of the mods directory as it is now can
\* return for the same registry, one for each order of the enumeration that
\* scans without error
FreshPlans ==
    {check_updates(list_installed_mods(fs, inodes, mods_exists, order).val, mod_registry) :
        order \in {o \in Enumerations(find_installed_mod_archives(fs, ModsDir)) :
                     list_installed_mods(fs, inodes, mods_exists, o).ok}}

\* C11: once the round is over and the task of a mod has committed, a fresh
\* scan and plan against the same registry returns no task for that mod.
C11_RoundIdempotent ==
    (main_pc = "exit" /\ main_out = "all_installed")
    => \A t \in Tasks :
        tasks[t].pc = "Committed"
        => \A plan \in FreshPlans : \A j \in 1..Len(plan) :
              plan[j].name # available_updates[t].name

\* the scan and the plan of the run have returned without error
Planned == main_pc \notin {"fetch", "check"} /\ main_out \notin {"error_fetch", "error_scan"}
\* the registry document has an entry for the mod whose checksums do not
\* contain the mod's fingerprint, fingerprints being equal when their
\* lowercase spellings are
Outdated(local_mod) ==
    /\ local_mod.mod_name \in DOMAIN document
    /\ \A k \in 1..Len(document[local_mod.mod_name].checksums) :
          ToLower(document[local_mod.mod_name].checksums[k]) # ToLower(local_mod.checksum)

\* C12: for every local mod that has a registry entry whose checksums do not
\* contain the mod's fingerprint, the plan holds exactly one task for the
\* mod's archive; the task has the name and the version of the local mod, the
\* version, the url and the checksums of the registry entry, and the archive
\* path of the local mod as the path to supersede.
C12_OneTaskPerOutdatedMod ==
    Planned
    => \A i \in 1..Len(installed_mods) :
        LET local_mod == installed_mods[i]
            hits == {j \in 1..Len(available_updates) :
                        available_updates[j].existing_path = local_mod.archive_path}
        IN  Outdated(local_mod)
            => /\ Cardinality(hits) = 1
               /\ \A j \in hits :
                    /\ available_updates[j].name = local_mod.mod_name
                    /\ available_updates[j].current_version = local_mod.version
                    /\ available_updates[j].available_version
                          = document[local_mod.mod_name].version
                    /\ available_updates[j].url = document[local_mod.mod_name].download_url
                    /\ available_updates[j].hash = document[local_mod.mod_name].checksums
\* a plan for two outdated mods, one of them at the version of its entry
C12_Witness ==
    /\ Planned
    /\ Len(available_updates) = 2
    /\ \A i \in 1..Len(installed_mods) : Outdated(installed_mods[i])
    /\ \E i \in 1..Len(installed_mods) :
          installed_mods[i].version = document[installed_mods[i].mod_name].version

\* the list holds a fingerprint whose lowercase spelling is that of hash_str
ContainsIgnoringCase(expected_hash, hash_str) ==
    \E k \in 1..Len(expected_hash) : ToLower(expected_hash[k]) = ToLower(hash_str)

\* C13: in the plan and in the verification of a download alike, a
\* fingerprint is in the registry's list exactly when the list holds a string
\* equal to it after both are put in lowercase: a mod with a registry entry
\* gets a task exactly when the entry's list does not hold its fingerprint in
\* that sense, and a download passes the verification exactly when the list
\* of its task holds the computed fingerprint in that sense.
C13_MembershipIgnoresCase ==
    /\ [](Planned
          => \A i \in 1..Len(installed_mods) :
               installed_mods[i].mod_name \in DOMAIN document
               => ((\E j \in 1..Len(available_updates) :
                       available_updates[j].existing_path = installed_mods[i].archive_path)
                   <=> ~ContainsIgnoringCase(document[installed_mods[i].mod_name].checksums,
                                             installed_mods[i].checksum)))
    /\ [][\A t \in Tasks :
            (tasks[t].pc = "Verifying" /\ tasks'[t].pc # "Verifying")
            => (tasks'[t].pc = "Verified"
                <=> ContainsIgnoringCase(available_updates[t].hash, ComputedFingerprint(t)))]_vars

\* what an archive of the mods directory is to the scan: not a zip container
\* ("invalid"), a container without manifest entry ("no_manifest"), one whose
\* manifest does not parse to a non-empty list of records ("bad_manifest"),
\* or one with a valid manifest ("valid")
ArchiveKind(content) ==
    LET zip == ZipArchiveNew(content)
        named == {i \in 1..Len(zip.entries) : zip.entries[i].name = MOD_MANIFEST_FILE}
    IN  IF ~zip.ok THEN "invalid"
        ELSE IF named = {} THEN "no_manifest"
        ELSE IF \E i \in named :
                   \/ zip.entries[i].data = <<>>
                   \/ \E k \in 1..Len(zip.entries[i].data) :
                         ~ManifestRecord(zip.entries[i].data[k]).some
        THEN "bad_manifest"
        ELSE "valid"
\* the scan of the run has ended, with a result or an error
Scanned == main_pc \notin {"fetch", "check"} /\ main_out # "error_fetch"
\* the inventory has an entry for the archive at path p
Listed(p) == \E i \in 1..Len(installed_mods) : installed_mods[i].archive_path = FileName(p)

\* C14: when the archives of the mods directory either have a valid manifest
\* or no manifest entry at all, the scan returns without error, leaves out
\* every archive without manifest entry and lists every archive with a valid
\* manifest.
C14_NoManifestSkipped ==
    (Scanned /\ mods_exists
        /\ \A p \in DOMAIN disk0 : ArchiveKind(disk0[p]) \in {"no_manifest", "valid"})
    => /\ main_out # "error_scan"
       /\ \A p \in DOMAIN disk0 :
            /\ ArchiveKind(disk0[p]) = "no_manifest" => ~Listed(p)
            /\ ArchiveKind(disk0[p]) = "valid" => Listed(p)
\* a scan of a directory with an archive without manifest entry and an
\* archive with a valid manifest, which alone is listed
C14_Witness ==
    /\ Scanned /\ main_out # "error_scan"
    /\ \E p, q \in DOMAIN disk0 :
          /\ ArchiveKind(disk0[p]) = "no_manifest" /\ ~Listed(p)
          /\ ArchiveKind(disk0[q]) = "valid" /\ Listed(q)
    /\ Len(installed_mods) = 1

\* C15: an archive that cannot be opened as a zip container, or whose
\* manifest does not parse, is skipped alone: the scan of an existing mods
\* directory returns without error and lists every archive with a valid
\* manifest, and no other.
C15_PerFileErrorSkipped ==
    (Scanned /\ mods_exists)
    => /\ main_out # "error_scan"
       /\ \A p \in DOMAIN disk0 : Listed(p) <=> ArchiveKind(disk0[p]) = "valid"

\* C16: when the response of a task's request has no success status, the task
\* fails in that step: no destination file is created, no file (its
\* superseded archive included) is changed, and no other task is touched.
C16_ErrorStatusFailsCleanly ==
    [][\A t \in Tasks :
         (tasks[t].status = "none" /\ tasks'[t].status = "error")
         => /\ tasks'[t].pc = "Failed"
            /\ tasks'[t].download_path = None
            /\ fs' = fs
            /\ inodes' = inodes
            /\ FileAt(fs', inodes', SupersededArchive(t))
                  = FileAt(fs, inodes, SupersededArchive(t))
            /\ \A u \in Tasks \ {t} : tasks'[u] = tasks[u]]_vars
\* a task has failed on the status of its response, with its superseded
\* archive as the scan found it, while another task has committed
C16_Witness ==
    \E t, u \in Tasks :
        /\ tasks[t].status = "error" /\ tasks[t].pc = "Failed"
        /\ ~tasks[t].download_path.some
        /\ FileAt(fs, inodes, SupersededArchive(t)) = Some(disk0[SupersededArchive(t)])
        /\ tasks[u].pc = "Committed"

\* C17: a task that ended rolled back or failed has printed its own error
\* message, with the name of its mod and the error, and no success message;
\* a success message is printed only by a task whose download passed the
\* verification.
C17_FailureReported ==
    \A t \in Tasks :
        /\ tasks[t].pc \in {"RolledBack", "Failed"}
           => /\ tasks[t].report.some
              /\ tasks[t].report.val.kind = "error"
              /\ tasks[t].report.val.name = available_updates[t].name
              /\ tasks[t].report.val.detail \in {"Request", "Io", "InvalidChecksum"}
        /\ (tasks[t].report.some /\ tasks[t].report.val.kind = "success")
           => /\ tasks[t].pc = "Committed"
              /\ Contains(available_updates[t].hash, ComputedFingerprint(t))
        /\ tasks[t].pc \notin Terminal => ~tasks[t].report.some
\* one task has rolled back and reported the checksum error under its mod's
\* name, another has committed and reported success
C17_Witness ==
    \E t, u \in Tasks :
        /\ tasks[t].pc = "RolledBack"
        /\ tasks[t].report = Some([kind |-> "error", name |-> available_updates[t].name,
                                   detail |-> "InvalidChecksum"])
        /\ tasks[u].pc = "Committed"
        /\ tasks[u].report.val.kind = "success"
        /\ available_updates[u].name # available_updates[t].name

\* the inventory entry of a valid archive of the mods directory as it was
\* when the run started
InventoryEntry(p) ==
    LocalModInfoNew(p,
        parse_mod_manifest_from_yaml(read_manifest_file_from_zip(disk0[p]).val.val).val.val,
        sync_hash_file(disk0[p]))
\* the archives a plan has a task for: valid, and outdated against the registry
StaleArchives ==
    {p \in DOMAIN disk0 : ArchiveKind(disk0[p]) = "valid" /\ Outdated(InventoryEntry(p))}
\* the files of the run are those it started with, unchanged
FilesUntouched ==
    /\ DOMAIN fs = DOMAIN disk0
    /\ \A p \in DOMAIN fs : inodes[fs[p]] = disk0[p]

\* C18: a run whose registry fetch fails, or whose mods directory is missing,
\* ends without a task and without a change to any file; and a run told to
\* install that has an outdated archive to plan for ends without tasks in
\* these two cases only.
C18_AbortOnlyOnFetchOrDirectory ==
    /\ (main_pc = "exit" /\ (main_out = "error_fetch" \/ ~mods_exists))
       => (Tasks = {} /\ FilesUntouched)
    /\ (main_pc = "exit" /\ install /\ StaleArchives # {} /\ Tasks = {})
       => (main_out = "error_fetch" \/ ~mods_exists)

\* the inventories a scan of the mods directory as it was when the run
\* started can return, one for each order of the enumeration
ScanResults ==
    LET f0 == [p \in DOMAIN disk0 |-> p]
    IN  {list_installed_mods(f0, disk0, mods_exists, order) :
            order \in Enumerations(find_installed_mod_archives(f0, ModsDir))}
\* no entry of the inventory is followed by one of a smaller name
SortedByName(mods) ==
    \A i, j \in 1..Len(mods) : i < j => ~StrLess(mods[j].mod_name, mods[i].mod_name)

\* C19: whatever order the directory is enumerated in, the inventory is in
\* ascending byte order of the mod names, and every scan of the same
\* directory content returns the same sequence.
C19_ScanOrderDeterministic ==
    Planned
    => /\ SortedByName(installed_mods)
       /\ \A result \in ScanResults : result.val = installed_mods

\* the records the manifest of a valid archive declares, in their order
DeclaredRecords(content) ==
    LET entries == ZipArchiveNew(content).entries
        i == CHOOSE k \in 1..Len(entries) : entries[k].name = MOD_MANIFEST_FILE
    IN  [k \in 1..Len(entries[i].data) |-> ManifestRecord(entries[i].data[k]).val]

\* C20: the inventory has exactly one entry for each archive with a valid
\* manifest, with the name and the version of the first record the manifest
\* declares, and no further entry; a task of the plan for the archive carries
\* that name, which is the key of the registry entry it was matched with.
C20_FirstRecordOnly ==
    Planned
    => /\ Len(installed_mods)
            = Cardinality({p \in DOMAIN disk0 : ArchiveKind(disk0[p]) = "valid"})
       /\ \A p \in DOMAIN disk0 :
            ArchiveKind(disk0[p]) = "valid"
            => LET first == DeclaredRecords(disk0[p])[1]
               IN  /\ Cardinality({i \in 1..Len(installed_mods) :
                          installed_mods[i].archive_path = FileName(p)}) = 1
                   /\ \A i \in 1..Len(installed_mods) :
                        installed_mods[i].archive_path = FileName(p)
                        => /\ installed_mods[i].mod_name = first.name
                           /\ installed_mods[i].version = first.version
                   /\ \A j \in 1..Len(available_updates) :
                        available_updates[j].existing_path = FileName(p)
                        => /\ available_updates[j].name = first.name
                           /\ first.name \in DOMAIN document
                           /\ available_updates[j].hash = document[first.name].checksums
\* the scan has listed an archive whose manifest declares two records; the
\* registry knows the name of the second record only, and the plan has no
\* task for the archive
C20_Witness ==
    /\ Planned
    /\ \E p \in DOMAIN disk0 :
          /\ ArchiveKind(disk0[p]) = "valid"
          /\ Len(DeclaredRecords(disk0[p])) = 2
          /\ DeclaredRecords(disk0[p])[1].name \notin DOMAIN document
          /\ DeclaredRecords(disk0[p])[2].name \in DOMAIN document
          /\ Listed(p)
          /\ \A j \in 1..Len(available_updates) :
                available_updates[j].existing_path # FileName(p)

(***************************************************************************)
(* Library functions applied on their own, each to one input of a bounded  *)
(* set, outside a run of main.                                             *)
(***************************************************************************)
\* bound: the number of entries of an archive
MaxEntries == 2
\* the UTF-8 byte-order-mark
Bom == <<239, 187, 191>>
\* entry names: "everest.yaml", "EVEREST.YAML", "d/everest.yaml", "x"
EntryNames ==
    {MOD_MANIFEST_FILE, ToUpper(MOD_MANIFEST_FILE), <<100, 47>> \o MOD_MANIFEST_FILE, <<120>>}
\* entry contents: with and without the mark, with the mark twice, the mark
\* alone, and contents that start like the mark
EntryData ==
    {<<1>>, <<2>>, Bom \o <<1>>, Bom \o Bom \o <<2>>, Bom, <<239, 187>>, <<239, 187, 1>>}
\* the archives ZipArchive::new can return: an error, or up to MaxEntries entries
Archives ==
    {[ok |-> FALSE, entries |-> <<>>]}
    \cup {[ok |-> TRUE, entries |-> es] :
            es \in UNION {[1..n -> [name : EntryNames, data : EntryData]] : n \in 0..MaxEntries}}

\* the variables of a run of main, which a library call leaves alone
run == <<cwd, mods_exists, install, document, fs, inodes, disk0, main_pc, main_out,
         mod_registry, installed_mods, available_updates, tasks, joined>>

InitCalls ==
    /\ cwd = ModsDir
    /\ mods_exists = TRUE
    /\ install = FALSE
    /\ document = <<>>
    /\ fs = <<>>
    /\ inodes = <<>>
    /\ disk0 = <<>>
    /\ main_pc = "idle"
    /\ main_out = "none"
    /\ mod_registry = <<>>
    /\ installed_mods = <<>>
    /\ available_updates = <<>>
    /\ tasks = <<>>
    /\ joined = 0
    /\ call = NoCall

\* read_manifest_file_from_zip applied to an archive
CallReadManifest ==
    /\ call = NoCall
    /\ \E zip \in Archives :
          call' = [fn |-> "read_manifest_file_from_zip", arg |-> zip,
                   res |-> read_manifest_from_archive(zip)]
    /\ UNCHANGED run

\* the responses determine_filename is applied to: the last segment of the
\* final url empty or "a"; no ETag, the ETag "e" in quotes, an empty ETag, or
\* an ETag with a byte outside ASCII
CallResponses ==
    {[ok |-> TRUE, url_last_segment |-> seg, etag |-> e] :
        seg \in {<<>>, <<97>>},
        e \in {None, Some(<<34, 101, 34>>), Some(<<>>), Some(<<34, 200, 34>>)}}

\* determine_filename applied to a response, with the uuid Uuid::new_v4 returns
CallDetermineFilename ==
    /\ call = NoCall
    /\ \E response \in CallResponses, uuid \in {<<49>>, <<50>>} :
          call' = [fn |-> "determine_filename",
                   arg |-> [response |-> response, uuid |-> uuid],
                   res |-> determine_filename(response, uuid)]
    /\ UNCHANGED run

\* the fields serde requires of an entry of the registry document: every
\* field of RemoteModInfo but the skipped name
RegistryFields ==
    {"Version", "Size", "LastUpdate", "URL", "xxHash", "GameBananaType", "GameBananaId"}
\* entries of a raw registry document: the fields they have (all, all but
\* one, or a further "Name"), and the values of those the model keeps
RawEntries ==
    {[fields |-> fields, version |-> v, download_url |-> Url1, checksums |-> <<HashOfNew>>] :
        fields \in {RegistryFields, RegistryFields \ {"Version"}, RegistryFields \ {"xxHash"},
                    RegistryFields \cup {"Name"}},
        v \in {Ver1, Ver2}}
\* raw registry documents: a mapping from mod names to raw entries
RawDocuments ==
    UNION {[keys -> RawEntries] : keys \in SUBSET {NameFrog, NameFrogLower}}

\* a parser that drops the entries that lack a field, which the program's
\* does not
from_slice_skipping_incomplete(raw) ==
    [ok |-> TRUE,
     val |-> [key \in {k \in DOMAIN raw : RegistryFields \subseteq raw[k].fields} |->
                [version |-> raw[key].version,
                 download_url |-> raw[key].download_url,
                 checksums |-> raw[key].checksums]]]
\* serde_yaml_ng::from_slice::<ModRegistry>: an error when an entry lacks a
\* required field, else the entries as the document gives them
from_slice(raw) ==
    IF \E key \in DOMAIN raw : ~(RegistryFields \subseteq raw[key].fields)
    THEN [ok |-> FALSE, val |-> <<>>]
    ELSE [ok |-> TRUE,
          val |-> [key \in DOMAIN raw |->
                     [version |-> raw[key].version,
                      download_url |-> raw[key].download_url,
                      checksums |-> raw[key].checksums]]]
\* ModRegistry::from: the parsed document with every name set to its key
ModRegistryFromBytes(raw) ==
    LET parsed == from_slice(raw)
    IN  IF ~parsed.ok THEN parsed
        ELSE [ok |-> TRUE, val |-> ModRegistryFrom(parsed.val)]

\* ModRegistry::from applied to a raw document
CallRegistryFrom ==
    /\ call = NoCall
    /\ \E raw \in RawDocuments :
          call' = [fn |-> "ModRegistry::from", arg |-> raw,
                   res |-> ModRegistryFromBytes(raw)]
    /\ UNCHANGED run

\* str::contains: needle occurs in hay
IsSubstring(needle, hay) ==
    \E i \in 0..(Len(hay) - Len(needle)) : SubSeq(hay, i + 1, i + Len(needle)) = needle
\* a search that compares the letters as they are, which the program does not
search_case_sensitive(registry, query, order) ==
    LET values == [i \in 1..Len(order) |-> registry[order[i]]]
        Matches(mod_info) == IsSubstring(query, mod_info.name)
    IN  SelectSeq(values, Matches)
\* ModRegistry::search: the entries, in the order HashMap::values iterates,
\* whose lowercased name contains the lowercased query
search(registry, query, order) ==
    LET values == [i \in 1..Len(order) |-> registry[order[i]]]
        Matches(mod_info) == IsSubstring(ToLower(query), ToLower(mod_info.name))
    IN  SelectSeq(values, Matches)
\* the registries search is applied to: entries under some of the names
\* "Frog", "frog" and "Toad"
SearchRegistries ==
    {ModRegistryFrom([key \in keys |->
                        [version |-> Ver1, download_url |-> Url1, checksums |-> <<HashOfNew>>]]) :
        keys \in SUBSET {NameFrog, NameFrogLower, NameToad}}
\* the queries: "", "fr", "FR", "OG", "oa", "rog", "Frogs", "x"
Queries ==
    {<<>>, <<102, 114>>, <<70, 82>>, <<79, 71>>, <<111, 97>>, <<114, 111, 103>>,
     NameFrog \o <<115>>, <<120>>}

\* ModRegistry::search applied to a registry and a query
CallSearch ==
    /\ call = NoCall
    /\ \E registry \in SearchRegistries, query \in Queries :
        \E order \in Enumerations(DOMAIN registry) :
          call' = [fn |-> "search", arg |-> [registry |-> registry, query |-> query],
                   res |-> search(registry, query, order)]
    /\ UNCHANGED run

NextCalls ==
    \/ CallReadManifest
    \/ CallDetermineFilename
    \/ CallRegistryFrom
    \/ CallSearch

SpecCalls == InitCalls /\ [][NextCalls]_vars

\* the name ends with the suffix, letter case aside
EndsWithIgnoringCase(name, suffix) ==
    /\ Len(name) >= Len(suffix)
    /\ ToLower(SubSeq(name, Len(name) - Len(suffix) + 1, Len(name))) = ToLower(suffix)

\* C21: for an archive that opens, the manifest returned is that of the first
\* entry, in entry order, whose name ends with the manifest file name in any
\* letter case and under any directory; none is returned only when no entry
\* has such a name.
C21_ManifestFoundBySuffix ==
    (call.fn = "read_manifest_file_from_zip" /\ call.arg.ok)
    => LET entries == call.arg.entries
           matches == {i \in 1..Len(entries) :
                          EndsWithIgnoringCase(entries[i].name, MOD_MANIFEST_FILE)}
       IN  IF matches = {}
           THEN call.res = [ok |-> TRUE, val |-> None]
           ELSE LET first == CHOOSE i \in matches : \A j \in matches : i <= j
                IN  call.res = [ok |-> TRUE, val |-> Some(StripBom(entries[first].data))]

\* the content starts with the three bytes of the byte-order-mark
StartsWithBom(d) == Len(d) >= 3 /\ SubSeq(d, 1, 3) = Bom
\* the index of the manifest entry of the archive read by the call, 0 if none
ManifestIndex ==
    LET named == {i \in 1..Len(call.arg.entries) :
                     call.arg.entries[i].name = MOD_MANIFEST_FILE}
    IN  IF named = {} THEN 0 ELSE CHOOSE i \in named : \A j \in named : i <= j
\* the archive read by the call, its manifest entry holding c instead
WithManifest(c) == [call.arg EXCEPT !.entries[ManifestIndex].data = c]

\* C22: a manifest entry made of the byte-order-mark followed by c, for every
\* content c, is read to the same bytes as a manifest entry made of c; a
\* content that does not start with the mark is returned unchanged.
C22_BomPrefixIgnored ==
    (call.fn = "read_manifest_file_from_zip" /\ call.arg.ok /\ ManifestIndex # 0)
    => LET d == call.arg.entries[ManifestIndex].data
       IN  IF StartsWithBom(d)
           THEN call.res = read_manifest_from_archive(WithManifest(SubSeq(d, 4, Len(d))))
           ELSE call.res = [ok |-> TRUE, val |-> Some(d)]
\* C22, amended: a manifest entry made of the byte-order-mark followed by c is
\* read to c, which is what a manifest entry made of c is read to when c does
\* not itself start with the mark (one mark is removed, not every one); a
\* content that does not start with the mark is returned unchanged.
C22_OneBomRemoved ==
    (call.fn = "read_manifest_file_from_zip" /\ call.arg.ok /\ ManifestIndex # 0)
    => LET d == call.arg.entries[ManifestIndex].data
           c == SubSeq(d, 4, Len(d))
       IN  IF StartsWithBom(d)
           THEN /\ call.res = [ok |-> TRUE, val |-> Some(c)]
                /\ ~StartsWithBom(c)
                   => call.res = read_manifest_from_archive(WithManifest(c))
           ELSE call.res = [ok |-> TRUE, val |-> Some(d)]
\* a manifest of the mark followed by <<1>> has been read to <<1>>
C22_Witness ==
    /\ call.fn = "read_manifest_file_from_zip" /\ call.arg.ok /\ ManifestIndex # 0
    /\ call.arg.entries[ManifestIndex].data = Bom \o <<1>>
    /\ call.res = [ok |-> TRUE, val |-> Some(<<1>>)]

\* C23: the file name is the last segment of the final url when that is not
\* empty; else the name made from the ETag header when the response has one;
\* else the placeholder with a fresh uuid.
C23_FilenamePriority ==
    call.fn = "determine_filename"
    => LET response == call.arg.response
       IN  IF response.url_last_segment # <<>>
           THEN call.res = response.url_last_segment
           ELSE IF response.etag.some
           THEN call.res = TrimQuotes(response.etag.val) \o DotZip
           ELSE call.res = UnknownModPrefix \o call.arg.uuid \o DotZip
\* C23, amended: the file name is the last segment of the final url when that
\* is not empty; else the name made from the ETag header when the response has
\* one that is text of visible ASCII characters; else (no ETag, or one with
\* other bytes) the placeholder with a fresh uuid.
C23_FilenamePriorityOfReadableETag ==
    call.fn = "determine_filename"
    => LET response == call.arg.response
           readable == /\ response.etag.some
                       /\ \A i \in 1..Len(response.etag.val) :
                             response.etag.val[i] \in {9} \cup (32..126)
       IN  IF response.url_last_segment # <<>>
           THEN call.res = response.url_last_segment
           ELSE IF readable
           THEN call.res = TrimQuotes(response.etag.val) \o DotZip
           ELSE call.res = UnknownModPrefix \o call.arg.uuid \o DotZip
\* the url of the response ends with "/" and the name "e.zip" was made from
\* its ETag
C23_Witness ==
    /\ call.fn = "determine_filename"
    /\ call.arg.response.url_last_segment = <<>>
    /\ call.arg.response.etag = Some(<<34, 101, 34>>)
    /\ call.res = <<101>> \o DotZip

\* C24: a registry document whose entries all have the required fields loads
\* to a registry with one entry under each key of the document, named by that
\* key and with the values of the document; a document with an entry that
\* lacks a required field loads to an error and no registry.
C24_NamesAreKeys ==
    call.fn = "ModRegistry::from"
    => IF \A key \in DOMAIN call.arg : RegistryFields \subseteq call.arg[key].fields
       THEN /\ call.res.ok
            /\ DOMAIN call.res.val = DOMAIN call.arg
            /\ \A key \in DOMAIN call.arg :
                  /\ call.res.val[key].name = key
                  /\ call.res.val[key].version = call.arg[key].version
                  /\ call.res.val[key].download_url = call.arg[key].download_url
                  /\ call.res.val[key].checksums = call.arg[key].checksums
       ELSE call.res = [ok |-> FALSE, val |-> <<>>]
\* a document with two complete entries, one of them with a "Name" field of
\* its own, has loaded to a registry whose names are the two keys
C24_Witness ==
    /\ call.fn = "ModRegistry::from"
    /\ DOMAIN call.arg = {NameFrog, NameFrogLower}
    /\ "Name" \in call.arg[NameFrog].fields
    /\ call.res.ok
    /\ call.res.val[NameFrog].name = NameFrog
    /\ call.res.val[NameFrogLower].name = NameFrogLower

\* the query occurs in the name at some offset, letter case aside
OccursIgnoringCase(query, name) ==
    \E k \in 0..(Len(name) - Len(query)) :
        \A j \in 1..Len(query) : LowerByte(name[k + j]) = LowerByte(query[j])

\* C25: search returns entries of the registry only; an entry whose name
\* contains the query, letter case aside, is returned exactly once, and an
\* entry whose name does not is not returned.
C25_SearchExact ==
    call.fn = "search"
    => LET registry == call.arg.registry
       IN  /\ \A i \in 1..Len(call.res) : call.res[i] \in {registry[key] : key \in DOMAIN registry}
           /\ \A key \in DOMAIN registry :
                Cardinality({i \in 1..Len(call.res) : call.res[i] = registry[key]})
                    = IF OccursIgnoringCase(call.arg.query, registry[key].name) THEN 1 ELSE 0
\* the query "FR" on a registry of Frog, frog and Toad has returned the two
\* entries Frog and frog
C25_Witness ==
    /\ call.fn = "search"
    /\ call.arg.query = <<70, 82>>
    /\ DOMAIN call.arg.registry = {NameFrog, NameFrogLower, NameToad}
    /\ Len(call.res) = 2
    /\ {call.res[i].name : i \in 1..Len(call.res)} = {NameFrog, NameFrogLower}

\* C26: at the step in which a task enters the verification, the file at its
\* destination path holds what was fed to its hasher: the destination exists
\* and the fingerprint of its content is the fingerprint the task computed.
C26_HashedIsWritten ==
    [][\A t \in Tasks :
         (tasks[t].pc = "Downloading" /\ tasks'[t].pc = "Verifying")
         => /\ tasks'[t].download_path.val \in DOMAIN fs'
            /\ sync_hash_file(inodes'[fs'[tasks'[t].download_path.val]])
                  = Hex016(HasherDigest(tasks'[t].hasher))]_vars

\* C27: once every task has ended, a file that a task created at its
\* destination path and that is still in the mods directory has a
\* fingerprint of that task's list; a task that failed while streaming has
\* left no file at its destination.
C27_NoUnverifiedFileSurvives ==
    (\A t \in Tasks : tasks[t].pc \in Terminal)
    => \A t \in Tasks :
        (tasks[t].download_path.some /\ tasks[t].download_path.val \in DOMAIN fs)
        => /\ Contains(available_updates[t].hash,
                       sync_hash_file(inodes[fs[tasks[t].download_path.val]]))
           /\ tasks[t].pc # "Failed"

(***************************************************************************)
(* main, Commands::Install: one download_mod, awaited in main itself.      *)
(***************************************************************************)
\* the names the command can be given
InstallNames == {NameFrog, NameFrogLower, NameToad}

InitInstall ==
    /\ \E a, b \in {None} \cup {Some(c) : c \in LocalContents} :
        \E dir \in BOOLEAN :
            /\ dir \/ (~a.some /\ ~b.some)
            /\ mods_exists = dir
            /\ LET files == InitialFiles(a, b)
               IN  /\ fs = [p \in {x.path : x \in files} |->
                               (CHOOSE x \in files : x.path = p).inode]
                   /\ inodes = [i \in {x.inode : x \in files} |->
                               (CHOOSE x \in files : x.inode = i).content]
                   /\ disk0 = [p \in {x.path : x \in files} |->
                               (CHOOSE x \in files : x.path = p).content]
    /\ cwd = ModsDir
    /\ install = FALSE
    /\ document \in Documents
    /\ main_pc = "install"
    /\ main_out = "none"
    /\ mod_registry = <<>>
    /\ installed_mods = <<>>
    /\ available_updates = <<>>
    /\ tasks = <<>>
    /\ joined = 0
    /\ call = NoCall

\* fetch_mod_registry and ModRegistry::from, then get_mod_info(&args.name):
\* a fetch error or an unknown name ends the command, else download_mod is
\* called with the url, the name and the checksums of the entry, which
\* available_updates[1] holds
InstallStart ==
    /\ main_pc = "install"
    /\ \/ /\ main_pc' = "exit"
          /\ main_out' = "error_fetch"
          /\ UNCHANGED <<mod_registry, available_updates, tasks>>
       \/ \E name \in InstallNames :
            LET mod_info == get_mod_info(ModRegistryFrom(document), name)
            IN  /\ mod_registry' = ModRegistryFrom(document)
                /\ IF mod_info.some
                   THEN /\ available_updates' = <<[name |-> mod_info.val.name,
                                                   url |-> mod_info.val.download_url,
                                                   hash |-> mod_info.val.checksums]>>
                        /\ tasks' = <<[NewTask EXCEPT !.pc = "Pending"]>>
                        /\ main_pc' = "download"
                        /\ UNCHANGED main_out
                   ELSE /\ main_pc' = "exit"
                        /\ main_out' = "not_found"
                        /\ UNCHANGED <<available_updates, tasks>>
    /\ UNCHANGED <<env, fs, inodes, installed_mods, joined>>

\* download_mod(..).await? has returned: Ok prints the closing message, Err
\* is returned from main
InstallReturn ==
    /\ main_pc = "download"
    /\ tasks[1].pc \in {"Verified", "RolledBack", "Failed"}
    /\ main_pc' = "exit"
    /\ main_out' = IF tasks[1].pc = "Verified" THEN "installation_finished"
                   ELSE "error_install"
    /\ UNCHANGED <<env, fs, inodes, mod_registry, installed_mods, available_updates,
                   tasks, joined>>

NextInstall ==
    \/ InstallStart
    \/ main_pc = "download" /\ SendRequest(1)
    \/ main_pc = "download" /\ StreamNext(1)
    \/ main_pc = "download" /\ Verify(1)
    \/ InstallReturn

SpecInstall == InitInstall /\ [][NextInstall]_vars

\* C28: when the download of the Install command has failed, every archive
\* the mods directory had before the command is still there with the content
\* it had.
C28_FailedInstallLeavesCollection ==
    (main_pc = "exit" /\ main_out = "error_install")
    => \A p \in DOMAIN disk0 : p \in DOMAIN fs /\ inodes[fs[p]] = disk0[p]

(***************************************************************************)
(* The run under fair scheduling: main goes on whenever it can, and so     *)
(* does every spawned task; a body stream has at most MaxChunks chunks, so *)
(* it ends or fails.  The runs are those that can spawn two tasks.         *)
(***************************************************************************)
\* the largest plan: one task for each archive of the mods directory
MaxTasks == 2
\* a step of task t, when the plan has a task t
SpawnedTaskStep(t) == t \in Tasks /\ TaskStep(t)
\* the steps of main once it has a plan to install
MainStep == Spawn \/ AwaitHandle

\* the runs told to install, from the mods directory, with a.zip and b.zip
\* holding the mods Frog and frog (either way round, or the same one twice)
\* and a registry that has both names
InitFair ==
    /\ Init
    /\ cwd = ModsDir
    /\ mods_exists
    /\ install
    /\ DOMAIN document = {NameFrog, NameFrogLower}
    /\ DOMAIN disk0 = {Path(ModsDir, FileA), Path(ModsDir, FileB)}
    /\ \A p \in DOMAIN disk0 : disk0[p] \in {<<1>>, <<3>>}

SpecFair ==
    /\ InitFair
    /\ [][Next]_vars
    /\ WF_vars(MainStep)
    /\ \A t \in 1..MaxTasks : WF_vars(SpawnedTaskStep(t))

\* C29: once main starts to spawn the tasks of a plan, every task of the
\* plan ends, whatever the interleaving, and main reports the completion.
C29_RunCompletes ==
    (main_pc = "spawn")
    ~> (/\ main_pc = "exit"
        /\ main_out = "all_installed"
        /\ \A t \in Tasks : tasks[t].pc \in Terminal)
\* the run has reported completion after two tasks that ran interleaved: one
\* failed while streaming, the other committed
C29_Witness ==
    /\ main_pc = "exit" /\ main_out = "all_installed"
    /\ \E t, u \in Tasks :
          /\ tasks[t].pc = "Failed" /\ tasks[t].offset > 0
          /\ tasks[u].pc = "Committed"

====
